---- MODULE Spec2Model ----
(***************************************************************************)
(* Appointment booking, availability checking and the reminder sweep of    *)
(* the 1Confirmed backend, as a state machine over the Appointment and    *)
(* Message collections.                                                    *)
(*                                                                         *)
(* Conventions of the model:                                               *)
(*  - an appointment's _id is its index in `appointments` (the core never  *)
(*    deletes an appointment);                                             *)
(*  - `date` is a calendar day number d; the stored Date is midnight of    *)
(*    that day, d * HoursPerDay on the clock `now`, which counts hours;    *)
(*  - startTime / endTime are zero-padded "HH:MM" strings in the source,   *)
(*    compared as strings; on zero-padded strings that order is the order  *)
(*    of the numbers 1..MaxTime used here;                                 *)
(*  - 0 (numbers) and "" (strings) stand for a field that is absent from   *)
(*    a request body or undefined in a document: both are falsy in the     *)
(*    source's `a || b` and `if (a)` tests.                                *)
(***************************************************************************)
EXTENDS Integers, Sequences, FiniteSets, TLC

VARIABLES
    appointments,   \* the Appointment collection, indexed by _id
    messages,       \* the Message collection (append-only log)
    outbox,         \* what the transport provider accepted, in order
    templates,      \* types of the active MessageTemplates
    doctors,        \* the Doctor collection, indexed by _id
    storeFaults,    \* how many more writes the store is going to refuse
    request,        \* the last HTTP request, where a specification records it
    response,       \* the last HTTP response: [op, id, code]
    requests,       \* in-flight createAppointment handlers (between awaits)
    now,            \* the wall clock, in hours
    sweep,          \* the running scheduleReminders call, if any
    avail           \* the last direct checkAvailability call and its result

vars == <<appointments, messages, outbox, templates, doctors, storeFaults, request, response, requests, now, sweep, avail>>

----------------------------------------------------------------------------
(* Bounds of the model *)

MaxAppointments == 2
MaxDoctor == 2
MaxDay == 2
MaxTime == 3
MaxCheckTime == 4
MaxRequests == 2
MaxMessages == 2
MaxStoreFaults == 1
MaxHour == 2

(* Program constants *)

HoursPerDay == 24
FirstReminderHours == 24
SecondReminderHours == 2
RecentLimit == 5
DefaultSlotDuration == 30
MinutesPerHour == 60
DaysPerWeek == 7

Doctors == 1..MaxDoctor
Days == 1..MaxDay
Times == 1..MaxTime
Statuses == {"scheduled", "confirmed", "rescheduled", "cancelled", "completed", "no-show"}
NoReason == "No reason provided"

NoReschedule == [previousDate |-> 0, previousStartTime |-> 0,
                 previousEndTime |-> 0, reason |-> ""]

Or(a, b) == IF a # 0 THEN a ELSE b
OrStr(a, b) == IF a # "" THEN a ELSE b

----------------------------------------------------------------------------
(* AppointmentSchema.statics.checkAvailability: the three-case conflict    *)
(* query, evaluated over a collection `appts`.                             *)

(* Two faulty variants of the query, kept to show that the properties of   *)
(* the availability check depend on each of its cases: one that looks only *)
(* for appointments lying inside the candidate interval, one that looks    *)
(* only for appointments running at the candidate's start.                 *)
ConflictQueryContainedOnly(a, startTime, endTime) ==
    a.startTime >= startTime /\ a.endTime <= endTime

ConflictQueryAtStartOnly(a, startTime, endTime) ==
    a.startTime <= startTime /\ a.endTime > startTime

ConflictQuery(a, startTime, endTime) ==
    \/ a.startTime <= startTime /\ a.endTime > startTime
    \/ a.startTime < endTime /\ a.endTime >= endTime
    \/ a.startTime >= startTime /\ a.endTime <= endTime

Conflicts(appts, doctorId, date, startTime, endTime, excludeAppointmentId) ==
    { i \in 1..Len(appts) :
        /\ appts[i].doctor = doctorId
        /\ appts[i].date = date
        /\ ConflictQuery(appts[i], startTime, endTime)
        /\ appts[i].status \notin {"cancelled", "no-show"}
        /\ (excludeAppointmentId # 0 => i # excludeAppointmentId) }

checkAvailability(appts, doctorId, date, startTime, endTime, excludeAppointmentId) ==
    Conflicts(appts, doctorId, date, startTime, endTime, excludeAppointmentId) = {}

(* AppointmentSchema.pre('save'): on a new document (or a modified date)    *)
(* the reminders are replaced by two pending ones, 24 h and 2 h before     *)
(* the document's date.                                                    *)

NewReminder(scheduledTime) ==
    [scheduledTime |-> scheduledTime, sent |-> FALSE, status |-> "pending", messageId |-> 0]

RemindersFor(date) ==
    << NewReminder(date * HoursPerDay - FirstReminderHours),
       NewReminder(date * HoursPerDay - SecondReminderHours) >>

preSave(doc, isNew, dateModified) ==
    IF isNew \/ dateModified
    THEN [doc EXCEPT !.reminders = RemindersFor(doc.date)]
    ELSE doc

----------------------------------------------------------------------------
(* NotificationDispatcher, as far as the booking handlers use it: a        *)
(* notification needs an active template of its type (else the service     *)
(* throws before any transport call), then the transport call succeeds or  *)
(* fails; a Message row is created only after the transport calls.         *)

(* A faulty variant that records the Message without its appointment.     *)
NewMessageUnlinked(appointmentId, direction, kind, status) ==
    [appointment |-> 0, direction |-> direction, kind |-> kind, status |-> status]

NewMessage(appointmentId, direction, kind, status) ==
    [appointment |-> appointmentId, direction |-> direction, kind |-> kind, status |-> status]

(* sendAppointmentUpdateNotification makes one transport call and creates *)
(* the Message row right after it: what a handler added to the log is      *)
(* what it handed over.                                                    *)
Handed(box, msgs, after) == box \o SubSeq(after, Len(msgs) + 1, Len(after))

(* A faulty variant that sends without looking for the template.          *)
NotifyOutcomesAnyTemplate(tmpls, kind) ==
    {"sent", "transportError"}

NotifyOutcomes(tmpls, kind) ==
    IF kind \in tmpls THEN {"sent", "transportError"} ELSE {"noTemplate"}

(* How one call of sendAppointmentNotification can go: as NotifyOutcomes,  *)
(* or the transport accepts the templated message and then refuses the     *)
(* interactive prompt.                                                     *)
NotificationOutcomes(tmpls) ==
    NotifyOutcomes(tmpls, "appointment_confirmation")
    \cup (IF "appointment_confirmation" \in tmpls THEN {"promptError"} ELSE {})

(* sendAppointmentNotification: templated message, then the interactive    *)
(* prompt, then both Message rows.                                         *)
sendAppointmentNotification(msgs, appointmentId, outcome) ==
    IF outcome = "sent"
    THEN msgs \o << NewMessage(appointmentId, "outbound", "appointment_confirmation", "sent"),
                    NewMessage(appointmentId, "outbound", "interactive", "sent") >>
    ELSE msgs

(* What the transport has accepted once sendAppointmentNotification ends:  *)
(* both messages, or the templated one alone when the prompt was refused   *)
(* (the function throws at line 332, before the Message rows of 338-361).  *)
NotificationHanded(box, appointmentId, outcome) ==
    IF outcome = "sent"
    THEN box \o << NewMessage(appointmentId, "outbound", "appointment_confirmation", "sent"),
                   NewMessage(appointmentId, "outbound", "interactive", "sent") >>
    ELSE IF outcome = "promptError"
    THEN Append(box, NewMessage(appointmentId, "outbound", "appointment_confirmation", "sent"))
    ELSE box

(* A faulty variant of the handlers' try/catch that lets the error of the  *)
(* notification reach the caller.                                          *)
NotificationPropagated(code, outcome) ==
    IF outcome = "sent" THEN code ELSE 500

(* The try/catch around the notification in the three booking handlers:    *)
(* the error is logged and the handler answers as if the send had worked.  *)
NotificationCaught(code, outcome) ==
    code

UpdateTemplateType(status) ==
    IF status = "rescheduled" THEN "appointment_rescheduled"
    ELSE IF status = "cancelled" THEN "appointment_cancelled"
    ELSE "appointment_confirmation"

(* sendAppointmentUpdateNotification (and its wrapper                      *)
(* sendStatusUpdateNotification).                                          *)
sendAppointmentUpdateNotification(msgs, appointmentId, status, outcome) ==
    IF outcome = "sent"
    THEN Append(msgs, NewMessage(appointmentId, "outbound", UpdateTemplateType(status), "sent"))
    ELSE msgs

----------------------------------------------------------------------------
(* Request bodies *)

CreateBodies ==
    [doctor : Doctors, date : Days, startTime : Times, endTime : Times,
     status : Statuses \cup {""}, sendNotification : BOOLEAN]

UpdateBodies ==
    [doctor : Doctors \cup {0}, date : Days \cup {0},
     startTime : Times \cup {0}, endTime : Times \cup {0},
     status : Statuses \cup {""}, cancelReason : {"", "patient asked"},
     rescheduleReason : {""}]

StatusBodies ==
    [status : Statuses \cup {"", "bogus"}, reason : {"", "patient asked"},
     patientInitiated : BOOLEAN]

Respond(op, id, code) == [op |-> op, id |-> id, code |-> code]

----------------------------------------------------------------------------
(* createAppointment *)

(* Appointment.create(req.body): schema defaults, then pre('save').        *)
CreatedDocument(body) ==
    preSave([doctor |-> body.doctor, date |-> body.date,
             startTime |-> body.startTime, endTime |-> body.endTime,
             status |-> OrStr(body.status, "scheduled"),
             reminders |-> << >>, cancelReason |-> "",
             rescheduleDetails |-> NoReschedule],
            TRUE, FALSE)

(* The whole handler, as one step (no other request interleaved).          *)
createAppointment(body) ==
    /\ Len(appointments) < MaxAppointments
    /\ IF ~checkAvailability(appointments, body.doctor, body.date,
                             body.startTime, body.endTime, 0)
       THEN /\ response' = Respond("create", 0, 400)
            /\ UNCHANGED <<appointments, messages, outbox>>
       ELSE /\ appointments' = Append(appointments, CreatedDocument(body))
            /\ IF body.sendNotification
               THEN \E o \in NotificationOutcomes(templates) :
                        /\ messages' = sendAppointmentNotification(
                                           messages, Len(appointments) + 1, o)
                        /\ outbox' = NotificationHanded(outbox, Len(appointments) + 1, o)
                        /\ response' = Respond("create", Len(appointments) + 1,
                                               NotificationCaught(201, o))
               ELSE /\ UNCHANGED <<messages, outbox>>
                    /\ response' = Respond("create", Len(appointments) + 1, 201)
    /\ UNCHANGED <<templates, doctors, storeFaults, requests, now, sweep, avail>>

----------------------------------------------------------------------------
(* updateAppointment *)

TimeChanged(appointment, body) ==
    \/ body.date # 0 /\ body.date # appointment.date
    \/ body.startTime # 0 /\ body.startTime # appointment.startTime
    \/ body.endTime # 0 /\ body.endTime # appointment.endTime

(* req.body.rescheduleDetails as the handler sets it (lines 877-885).      *)
RescheduleSnapshot(appointment, body) ==
    IF TimeChanged(appointment, body) /\ body.status = "rescheduled"
    THEN [previousDate |-> appointment.date,
          previousStartTime |-> appointment.startTime,
          previousEndTime |-> appointment.endTime,
          reason |-> OrStr(body.rescheduleReason, NoReason)]
    ELSE NoReschedule

(* A faulty variant that does not exclude the appointment being updated.   *)
UpdateAvailableSelfIncluded(appts, id, body) ==
    checkAvailability(appts,
                      Or(body.doctor, appts[id].doctor),
                      Or(body.date, appts[id].date),
                      Or(body.startTime, appts[id].startTime),
                      Or(body.endTime, appts[id].endTime),
                      0)

(* checkAvailability as called at lines 887-894, the body's fields falling *)
(* back on the stored ones.                                                *)
UpdateAvailable(appts, id, body) ==
    checkAvailability(appts,
                      Or(body.doctor, appts[id].doctor),
                      Or(body.date, appts[id].date),
                      Or(body.startTime, appts[id].startTime),
                      Or(body.endTime, appts[id].endTime),
                      id)

(* req.body.cancelReason after lines 906-909.                              *)
UpdateCancelReason(appointment, body) ==
    IF body.status = "cancelled" /\ appointment.status # "cancelled"
    THEN OrStr(body.cancelReason, NoReason)
    ELSE body.cancelReason

(* Appointment.findByIdAndUpdate(id, req.body): every field present in     *)
(* the body is set; it is a query update, so pre('save') does not run and  *)
(* the reminders stay as they are.                                         *)
UpdatedDocument(appointment, body) ==
    LET rd == RescheduleSnapshot(appointment, body)
        cr == UpdateCancelReason(appointment, body)
    IN [appointment EXCEPT
          !.doctor = Or(body.doctor, @),
          !.date = Or(body.date, @),
          !.startTime = Or(body.startTime, @),
          !.endTime = Or(body.endTime, @),
          !.status = OrStr(body.status, @),
          !.cancelReason = OrStr(cr, @),
          !.rescheduleDetails = IF rd # NoReschedule THEN rd ELSE @]

updateAppointment(id, body) ==
    /\ IF id > Len(appointments)
       THEN /\ response' = Respond("update", id, 404)
            /\ UNCHANGED <<appointments, messages, outbox>>
       ELSE IF TimeChanged(appointments[id], body) /\ ~UpdateAvailable(appointments, id, body)
       THEN /\ response' = Respond("update", id, 400)
            /\ UNCHANGED <<appointments, messages, outbox>>
       ELSE LET updated == UpdatedDocument(appointments[id], body)
            IN /\ appointments' = [appointments EXCEPT ![id] = updated]
               \* line 921 compares the body with the document as updated
               /\ IF (body.status # "" /\ body.status # updated.status)
                     \/ RescheduleSnapshot(appointments[id], body) # NoReschedule
                  THEN \E o \in NotifyOutcomes(templates, UpdateTemplateType(updated.status)) :
                           /\ messages' = sendAppointmentUpdateNotification(
                                              messages, id, updated.status, o)
                           /\ response' = Respond("update", id, NotificationCaught(200, o))
                  ELSE /\ messages' = messages
                       /\ response' = Respond("update", id, 200)
               /\ outbox' = Handed(outbox, messages, messages')
    /\ UNCHANGED <<templates, doctors, storeFaults, requests, now, sweep, avail>>

----------------------------------------------------------------------------
(* changeAppointmentStatus *)

(* A faulty variant that recomputes the reminders as a save() of a         *)
(* modified date would.                                                    *)
StatusUpdatedDocumentSaved(appointment, body) ==
    preSave([appointment EXCEPT
               !.status = body.status,
               !.cancelReason = IF body.status = "cancelled" /\ body.reason # ""
                                THEN body.reason ELSE @],
            FALSE, TRUE)

(* Appointment.findByIdAndUpdate(id, updateData) with the updateData of    *)
(* lines 1111-1122: the status, and the reason where one is given.         *)
StatusUpdatedDocument(appointment, body) ==
    [appointment EXCEPT
       !.status = body.status,
       !.cancelReason = IF body.status = "cancelled" /\ body.reason # ""
                        THEN body.reason ELSE @,
       !.rescheduleDetails = IF body.status = "rescheduled" /\ body.reason # ""
                             THEN [NoReschedule EXCEPT !.reason = body.reason]
                             ELSE @]

(* A faulty variant that accepts any status that is given.                 *)
StatusValidAny(status) ==
    status # ""

(* The two checks of lines 1100-1109: a status is given, and it is one of  *)
(* validStatuses.                                                          *)
StatusValid(status) ==
    status # "" /\ status \in Statuses

changeAppointmentStatus(id, body) ==
    /\ IF ~StatusValid(body.status)
       THEN /\ response' = Respond("status", id, 400)
            /\ UNCHANGED <<appointments, messages, outbox>>
       ELSE IF id > Len(appointments)
       THEN /\ response' = Respond("status", id, 404)
            /\ UNCHANGED <<appointments, messages, outbox>>
       ELSE /\ appointments' = [appointments EXCEPT
                                  ![id] = StatusUpdatedDocument(@, body)]
            /\ IF ~body.patientInitiated
               THEN \E o \in NotifyOutcomes(templates, UpdateTemplateType(body.status)) :
                        /\ messages' = sendAppointmentUpdateNotification(
                                           messages, id, body.status, o)
                        /\ response' = Respond("status", id, NotificationCaught(200, o))
               ELSE /\ messages' = messages
                    /\ response' = Respond("status", id, 200)
            /\ outbox' = Handed(outbox, messages, messages')
    /\ UNCHANGED <<templates, doctors, storeFaults, requests, now, sweep, avail>>

----------------------------------------------------------------------------
(* handleWhatsAppWebhook / processIncomingMessage.                         *)
(*                                                                         *)
(* A webhook request carries a payload or none; the payload names its      *)
(* sender (the phone number of the patient of the model, or one no         *)
(* patient has) and an action: "none" for a text message, else the id of   *)
(* the button pressed.  Every appointment of the model is that patient's   *)
(* and every Message row of the model is less than 7 days old (the clock   *)
(* spans MaxDay days), so the window of the correlation query holds every  *)
(* outbound row.                                                           *)

WebhookActions == {"none", "confirm", "reschedule", "cancel"}

WebhookData == [payload : BOOLEAN, from : {"known", "unknown"}, action : WebhookActions]

WebhookPayloads ==
    { data \in WebhookData : ~data.payload => (data.from = "unknown" /\ data.action = "none") }

(* Faulty variants of the answer: none before the processing, and an       *)
(* error when the sender is unknown.                                       *)
WebhookAnswerDeferred(data) ==
    IF data.payload THEN 0 ELSE 400

WebhookAnswerKnownOnly(data) ==
    IF data.payload /\ data.from = "known" THEN 200 ELSE 400

(* What the controller answers before it processes anything (lines 15-27): *)
(* 400 without a payload, else 200.                                        *)
WebhookAnswer(data) ==
    IF data.payload THEN 200 ELSE 400

(* A variant in which the service module binds the name Patient, so that  *)
(* processIncomingMessage runs past its first lookup.                      *)
PatientRequired ==
    TRUE

(* The service module requires axios, Appointment, MessageTemplate,        *)
(* Message, logger and moment (lines 34-39): the name Patient, which       *)
(* processIncomingMessage reads at line 509, is bound nowhere in it.       *)
PatientBound ==
    FALSE

PatientCancelReason == "Cancelled by patient via WhatsApp"

(* The rows the correlation query returns (lines 519-526): outbound,       *)
(* newest first, five at most.                                             *)
RecentMessages(msgs) ==
    LET outbound == SelectSeq(msgs, LAMBDA m : m.direction = "outbound")
        n == Len(outbound)
    IN [k \in 1..(IF n < RecentLimit THEN n ELSE RecentLimit) |-> outbound[n + 1 - k]]

(* The appointment of the first of them that has one, else 0 (529-536).    *)
CorrelatedAppointment(msgs) ==
    LET recent == RecentMessages(msgs)
        linked == { k \in 1..Len(recent) : recent[k].appointment # 0 }
    IN IF linked = {} THEN 0
       ELSE recent[CHOOSE k \in linked : \A l \in linked : k <= l].appointment

(* The switch of lines 564-599 on the document fetched by the query;       *)
(* appointment.save() runs pre('save') with no date modified.              *)
RespondedDocument(appointment, action) ==
    preSave([appointment EXCEPT
               !.status = CASE action = "confirm" -> "confirmed"
                            [] action = "reschedule" -> "rescheduled"
                            [] action = "cancel" -> "cancelled"
                            [] OTHER -> @,
               !.cancelReason = IF action = "cancel" THEN PatientCancelReason ELSE @],
            FALSE, FALSE)

(* processIncomingMessage(webhookData).  `outcome` is how the transport    *)
(* takes the acknowledgment text, if the function gets that far.           *)
processIncomingMessage(appts, msgs, box, data, outcome) ==
    LET unchanged == [result |-> "threw", appointments |-> appts,
                      messages |-> msgs, outbox |-> box]
        appointment == CorrelatedAppointment(msgs)
        incoming == NewMessage(appointment, "inbound", data.action, "read")
        acts == appointment # 0 /\ data.action \in {"confirm", "reschedule", "cancel"}
        saved == IF acts
                 THEN [appts EXCEPT ![appointment] = RespondedDocument(@, data.action)]
                 ELSE appts
    IN IF ~PatientBound THEN unchanged
       ELSE IF data.from = "unknown" THEN [unchanged EXCEPT !.result = "dropped"]
       ELSE IF acts /\ outcome # "sent"
       THEN [result |-> "threw", appointments |-> saved,
             messages |-> Append(msgs, incoming), outbox |-> box]
       ELSE [result |-> "processed", appointments |-> saved,
             messages |-> Append(msgs, incoming),
             outbox |-> IF acts
                        THEN Append(box, NewMessage(appointment, "outbound", "text", "sent"))
                        ELSE box]

(* The whole handler, as one step: the answer, then the processing, whose  *)
(* errors are only logged (lines 29-34).                                   *)
handleWhatsAppWebhook(data) ==
    /\ response' = Respond("webhook", 0, WebhookAnswer(data))
    /\ IF data.payload
       THEN \E o \in {"sent", "transportError"} :
              LET r == processIncomingMessage(appointments, messages, outbox, data, o)
              IN /\ appointments' = r.appointments
                 /\ messages' = r.messages
                 /\ outbox' = r.outbox
       ELSE UNCHANGED <<appointments, messages, outbox>>
    /\ UNCHANGED <<templates, doctors, storeFaults, requests, now, sweep, avail>>

----------------------------------------------------------------------------
NoResponse == Respond("", 0, 0)
Request(op, id, body) == [op |-> op, id |-> id, body |-> body]
NoRequest == Request("", 0, << >>)
NoSweep == [running |-> FALSE, ran |-> FALSE, quiet |-> FALSE, immediate |-> FALSE,
            at |-> 0, due |-> << >>, tasks |-> << >>, scheduled |-> << >>,
            errors |-> << >>, previous |-> [due |-> << >>, errors |-> << >>]]
NoAvail == [called |-> FALSE]

(* The booking lifecycle: an empty database, then any sequence of bookings, *)
(* updates, status changes and inbound webhooks.  The lifecycle draws its  *)
(* requests from the bodies below: bookings of the first provider on the   *)
(* first day, updates that move at most one end of the interval.           *)

LifecycleCreateBodies ==
    { b \in CreateBodies : b.doctor = 1 /\ b.date = 1 /\ b.startTime <= b.endTime }

LifecycleUpdateBodies ==
    { b \in UpdateBodies :
        /\ b.doctor = 0 /\ b.date = 0 /\ b.cancelReason = ""
        /\ b.startTime = 0 \/ b.endTime = 0
        /\ b.status \in {"", "scheduled", "cancelled"} }

LifecycleStatusBodies ==
    { b \in StatusBodies : b.reason = "" }

Init ==
    /\ appointments = << >>
    /\ messages = << >>
    /\ outbox = << >>
    /\ templates = {}
    /\ doctors = << >>
    /\ storeFaults = 0
    /\ request = NoRequest
    /\ response = NoResponse
    /\ requests = << >>
    /\ now = 0
    /\ sweep = NoSweep
    /\ avail = NoAvail

Next ==
    \/ \E body \in LifecycleCreateBodies :
           createAppointment(body) /\ UNCHANGED request
    \/ \E id \in 1..MaxAppointments, body \in LifecycleUpdateBodies :
           updateAppointment(id, body) /\ UNCHANGED request
    \/ \E id \in 1..MaxAppointments, body \in LifecycleStatusBodies :
           changeAppointmentStatus(id, body) /\ UNCHANGED request
    \/ \E data \in WebhookPayloads :
           handleWhatsAppWebhook(data) /\ UNCHANGED request

Spec == Init /\ [][Next]_vars

----------------------------------------------------------------------------
(* One request against a database that earlier requests built:             *)
(* appointment 1 was booked and had its status changed; in part of the     *)
(* databases a second appointment was then booked (it passed its           *)
(* availability check); last, the status of appointment 1 was changed      *)
(* again, possibly with a reason.  Where there are two appointments the    *)
(* first is of provider 1 on day 1.  The request is recorded in `request`. *)

SeedCreateBodies ==
    { b \in CreateBodies : b.startTime < b.endTime /\ b.status = "" /\ ~b.sendNotification }

SeedFirstStatuses == {"scheduled", "cancelled"}

SeedStatusBodies ==
    { b \in StatusBodies :
        b.status \in {"scheduled", "rescheduled", "cancelled"} /\ b.patientInitiated }

SeededFirst(ba, s1) == [CreatedDocument(ba) EXCEPT !.status = s1]

SeededAppointments ==
    { << StatusUpdatedDocument(SeededFirst(t[1], "scheduled"), t[2]) >> :
        t \in SeedCreateBodies \X SeedStatusBodies }
    \cup
    { << StatusUpdatedDocument(SeededFirst(t[1], t[2]), t[4]), CreatedDocument(t[3]) >> :
        t \in { u \in SeedCreateBodies \X SeedFirstStatuses \X SeedCreateBodies \X SeedStatusBodies :
                  /\ u[1].date = 1 /\ u[1].doctor = 1
                  /\ u[4].reason # "" <=> u[4].status \in {"cancelled", "rescheduled"}
                  /\ checkAvailability(<< SeededFirst(u[1], u[2]) >>, u[3].doctor,
                                       u[3].date, u[3].startTime, u[3].endTime, 0) } }

InitSeeded ==
    /\ appointments \in SeededAppointments
    /\ messages = << >>
    /\ outbox = << >>
    /\ templates = {}
    /\ doctors = << >>
    /\ storeFaults = 0
    /\ request = NoRequest
    /\ response = NoResponse
    /\ requests = << >>
    /\ now = 0
    /\ sweep = NoSweep
    /\ avail = NoAvail

(* The bodies of the request: a booking without the notification flag (no  *)
(* template is active here), an update that leaves the status alone,       *)
(* confirms or cancels, with a cancel reason only when it cancels.         *)
RequestCreateBodies == { b \in CreateBodies : ~b.sendNotification }

RequestUpdateBodies ==
    { b \in UpdateBodies :
        /\ b.status \in {"", "confirmed", "cancelled"}
        /\ b.cancelReason # "" => b.status = "cancelled" }

NextRequest ==
    /\ request = NoRequest
    /\ \/ \E body \in RequestCreateBodies :
            createAppointment(body) /\ request' = Request("create", 0, body)
       \/ \E body \in RequestUpdateBodies :
            updateAppointment(1, body) /\ request' = Request("update", 1, body)

SpecRequest == InitSeeded /\ [][NextRequest]_vars

----------------------------------------------------------------------------
(* checkAvailability on its own: a database of one or two appointments     *)
(* (any provider, date, times and status: createAppointment stores what    *)
(* the body gives), then one call for provider 1 on day 1 with any times   *)
(* and any excluded id.                                                    *)

CheckTimes == 1..MaxCheckTime

CheckDocuments ==
    { CreatedDocument(b) :
        b \in [doctor : Doctors, date : Days, startTime : CheckTimes, endTime : CheckTimes,
               status : {"scheduled", "completed", "cancelled", "no-show"},
               sendNotification : {FALSE}] }

CheckSecondDocuments ==
    { d \in CheckDocuments :
        /\ d.doctor = 1 /\ d.date = 1
        /\ d.startTime < d.endTime
        /\ d.status = "scheduled" }

InitAvail ==
    /\ appointments \in { << d >> : d \in CheckDocuments }
                        \cup { << d, e >> : d \in CheckDocuments, e \in CheckSecondDocuments }
    /\ messages = << >>
    /\ outbox = << >>
    /\ templates = {}
    /\ doctors = << >>
    /\ storeFaults = 0
    /\ request = NoRequest
    /\ response = NoResponse
    /\ requests = << >>
    /\ now = 0
    /\ sweep = NoSweep
    /\ avail = NoAvail

CallCheckAvailability(doctorId, date, startTime, endTime, excludeAppointmentId) ==
    /\ ~avail.called
    /\ avail' = [called |-> TRUE, doctorId |-> doctorId, date |-> date,
                 startTime |-> startTime, endTime |-> endTime,
                 excludeAppointmentId |-> excludeAppointmentId,
                 result |-> checkAvailability(appointments, doctorId, date, startTime,
                                              endTime, excludeAppointmentId)]
    /\ UNCHANGED <<appointments, messages, outbox, templates, doctors, storeFaults, request, response, requests, now, sweep>>

NextAvail ==
    \E doctorId \in {1}, date \in {1}, startTime \in CheckTimes, endTime \in CheckTimes,
       excludeAppointmentId \in 0..Len(appointments) :
        CallCheckAvailability(doctorId, date, startTime, endTime, excludeAppointmentId)

SpecAvail == InitAvail /\ [][NextAvail]_vars

----------------------------------------------------------------------------
(* Concurrent createAppointment handlers.  The handler awaits the          *)
(* availability query and later awaits Appointment.create; other handlers  *)
(* run between the two.  Nothing in the handler or the model serialises    *)
(* them: there is no lock, transaction or unique index.                    *)

RaceBodies ==
    { b \in CreateBodies : b.startTime < b.endTime /\ b.status = "" /\ ~b.sendNotification }

(* the request arrives; the handler runs up to the availability query      *)
beginCreateAppointment(body) ==
    /\ Len(requests) < MaxRequests
    /\ requests' = Append(requests, [body |-> body, pc |-> "check", id |-> 0])
    /\ UNCHANGED <<appointments, messages, outbox, templates, doctors, storeFaults, request, response, now, sweep, avail>>

(* lines 801-816: the query runs against the collection as it is now       *)
createAppointmentCheck(r) ==
    /\ requests[r].pc = "check"
    /\ LET body == requests[r].body
       IN IF checkAvailability(appointments, body.doctor, body.date,
                               body.startTime, body.endTime, 0)
          THEN /\ requests' = [requests EXCEPT ![r].pc = "create"]
               /\ UNCHANGED response
          ELSE /\ requests' = [requests EXCEPT ![r].pc = "rejected"]
               /\ response' = Respond("create", 0, 400)
    /\ UNCHANGED <<appointments, messages, outbox, templates, doctors, storeFaults, request, now, sweep, avail>>

(* lines 832-851: Appointment.create and the response                      *)
createAppointmentWrite(r) ==
    /\ requests[r].pc = "create"
    /\ Len(appointments) < MaxAppointments
    /\ appointments' = Append(appointments, CreatedDocument(requests[r].body))
    /\ requests' = [requests EXCEPT ![r].pc = "created", ![r].id = Len(appointments) + 1]
    /\ response' = Respond("create", Len(appointments) + 1, 201)
    /\ UNCHANGED <<messages, outbox, templates, doctors, storeFaults, request, now, sweep, avail>>

NextRace ==
    \/ \E body \in RaceBodies : beginCreateAppointment(body)
    \/ \E r \in 1..Len(requests) : createAppointmentCheck(r)
    \/ \E r \in 1..Len(requests) : createAppointmentWrite(r)

SpecRace == Init /\ [][NextRace]_vars

----------------------------------------------------------------------------
(* ReminderScheduler *)

(* A faulty variant that picks the last unsent reminder.                   *)
LastUnsent(reminders) ==
    IF \E k \in 1..Len(reminders) : ~reminders[k].sent
    THEN CHOOSE k \in 1..Len(reminders) :
            ~reminders[k].sent /\ \A l \in (k + 1)..Len(reminders) : reminders[l].sent
    ELSE 0

(* appointment.reminders.find(r => !r.sent && r.type === 'whatsapp'): the  *)
(* first unsent reminder in array order, 0 when there is none.             *)
FirstUnsent(reminders) ==
    IF \E k \in 1..Len(reminders) : ~reminders[k].sent
    THEN CHOOSE k \in 1..Len(reminders) :
            ~reminders[k].sent /\ \A l \in 1..(k - 1) : reminders[l].sent
    ELSE 0

(* How one call of sendAppointmentReminder can go: the template is        *)
(* missing, the transport refuses the message, or it accepts it; after     *)
(* that Message.create or appointment.save() can fail while the store      *)
(* refuses writes.                                                         *)
ReminderOutcomes(tmpls, faults) ==
    NotifyOutcomes(tmpls, "appointment_reminder")
    \cup (IF "appointment_reminder" \in tmpls /\ faults > 0
          THEN {"createError", "saveError"} ELSE {})

(* A faulty variant that gives the reminder up when the call fails: the    *)
(* first unsent reminder is marked as sent with status failed.             *)
sendAppointmentReminderGivingUp(appts, msgs, box, appointmentId, outcome) ==
    LET reminderIndex == FirstUnsent(appts[appointmentId].reminders)
    IN [ok |-> FALSE, refused |-> 0, messages |-> msgs, outbox |-> box,
        appointments |->
            IF reminderIndex = 0 THEN appts
            ELSE [appts EXCEPT ![appointmentId].reminders[reminderIndex] =
                     [@ EXCEPT !.sent = TRUE, !.status = "failed"]]]

(* sendAppointmentReminder(appointmentId): template lookup (188-202),      *)
(* transport call (221-226), Message.create (228-240), then the first      *)
(* unsent reminder of the document as read now is marked sent and saved    *)
(* (242-252).  Any failure throws and leaves the earlier steps done.       *)
sendAppointmentReminder(appts, msgs, box, appointmentId, outcome) ==
    LET reminderIndex == FirstUnsent(appts[appointmentId].reminders)
        message == NewMessage(appointmentId, "outbound", "appointment_reminder", "sent")
        messageId == Len(msgs) + 1
        nothing == [ok |-> FALSE, refused |-> 0, appointments |-> appts,
                    messages |-> msgs, outbox |-> box]
    IN IF outcome \in {"noTemplate", "transportError"} THEN nothing
       ELSE IF outcome = "createError"
       THEN [nothing EXCEPT !.refused = 1, !.outbox = Append(box, message)]
       ELSE IF outcome = "saveError" /\ reminderIndex # 0
       THEN [nothing EXCEPT !.refused = 1, !.outbox = Append(box, message),
                            !.messages = Append(msgs, message)]
       ELSE [ok |-> TRUE, refused |-> 0,
             outbox |-> Append(box, message),
             messages |-> Append(msgs, message),
             appointments |->
                 IF reminderIndex = 0 THEN appts
                 ELSE [appts EXCEPT ![appointmentId].reminders[reminderIndex] =
                          [@ EXCEPT !.sent = TRUE, !.messageId = messageId,
                                    !.status = "sent"]]]

(* The query of scheduleReminders (lines 625-629): some reminder is due,   *)
(* some reminder is unsent, and the status is not terminal.                *)
SweepMatches(a, t) ==
    /\ \E k \in 1..Len(a.reminders) : a.reminders[k].scheduledTime <= t
    /\ \E k \in 1..Len(a.reminders) : ~a.reminders[k].sent
    /\ a.status \notin {"cancelled", "completed", "no-show"}

(* A faulty variant of the inner test that waits until the scheduled time  *)
(* is strictly in the past.                                                *)
DueUnsentStrictlyPast(reminders, t) ==
    { k \in 1..Len(reminders) : ~reminders[k].sent /\ reminders[k].scheduledTime < t }

DueUnsent(reminders, t) ==
    { k \in 1..Len(reminders) : ~reminders[k].sent /\ reminders[k].scheduledTime <= t }

(* The number of iterations of the inner loop (lines 632-633) that reach   *)
(* the send, per fetched appointment: one per due unsent reminder of the   *)
(* document as fetched.                                                    *)
SweepDue(appts, t) ==
    [i \in 1..Len(appts) |->
        IF SweepMatches(appts[i], t)
        THEN Cardinality(DueUnsent(appts[i].reminders, t))
        ELSE 0]

(* The calls of sendAppointmentReminder the two loops make, in order.      *)
RECURSIVE SweepTasks(_, _)
SweepTasks(due, i) ==
    IF i > Len(due) THEN << >>
    ELSE [k \in 1..due[i] |-> i] \o SweepTasks(due, i + 1)

(* scheduleReminders up to the end of its query.  Beside the locals of the *)
(* function the record keeps what the run before it did: `immediate` says  *)
(* that the clock is where that run read it and nothing happened since it  *)
(* returned, `previous` how many due unsent reminders it fetched and how   *)
(* many errors it collected, per appointment.                              *)
scheduleRemindersStart ==
    /\ ~sweep.running
    /\ sweep' = [sweep EXCEPT
                   !.running = TRUE, !.ran = TRUE, !.at = now,
                   !.immediate = sweep.ran /\ sweep.quiet /\ sweep.at = now,
                   !.quiet = FALSE,
                   !.previous = [due |-> sweep.due, errors |-> sweep.errors],
                   !.due = SweepDue(appointments, now),
                   !.tasks = SweepTasks(SweepDue(appointments, now), 1),
                   !.scheduled = [i \in 1..Len(appointments) |-> 0],
                   !.errors = [i \in 1..Len(appointments) |-> 0]]
    /\ UNCHANGED <<appointments, messages, outbox, templates, doctors, storeFaults, request, response, requests, now, avail>>

(* A faulty variant in which the first error ends the loops.               *)
RemainingTasksUntilError(tasks, ok) ==
    IF ok THEN Tail(tasks) ELSE << >>

(* The iterations left after one call: the try/catch around the call       *)
(* (lines 634-649) keeps the loops going whether it threw or not.          *)
RemainingTasks(tasks, ok) ==
    Tail(tasks)

(* one iteration that calls sendAppointmentReminder (lines 634-649)        *)
scheduleRemindersDispatch ==
    /\ sweep.running
    /\ sweep.tasks # << >>
    /\ LET id == Head(sweep.tasks)
       IN \E o \in ReminderOutcomes(templates, storeFaults) :
            LET r == sendAppointmentReminder(appointments, messages, outbox, id, o)
            IN /\ appointments' = r.appointments
               /\ messages' = r.messages
               /\ outbox' = r.outbox
               /\ storeFaults' = storeFaults - r.refused
               /\ sweep' = [sweep EXCEPT
                              !.tasks = RemainingTasks(@, r.ok),
                              !.scheduled[id] = IF r.ok THEN @ + 1 ELSE @,
                              !.errors[id] = IF r.ok THEN @ ELSE @ + 1]
    /\ UNCHANGED <<templates, doctors, request, response, requests, now, avail>>

(* the loops are over: the results are returned (line 654)                 *)
scheduleRemindersEnd ==
    /\ sweep.running
    /\ sweep.tasks = << >>
    /\ sweep' = [sweep EXCEPT !.running = FALSE, !.quiet = TRUE]
    /\ UNCHANGED <<appointments, messages, outbox, templates, doctors, storeFaults, request, response, requests, now, avail>>

Unquiet == [sweep EXCEPT !.quiet = FALSE]

(* POST /api/appointments/:id/remind                                       *)
sendReminderRequest(id) ==
    /\ id \in 1..Len(appointments)
    /\ Len(messages) < MaxMessages
    /\ \E o \in ReminderOutcomes(templates, storeFaults) :
         LET r == sendAppointmentReminder(appointments, messages, outbox, id, o)
         IN /\ appointments' = r.appointments
            /\ messages' = r.messages
            /\ outbox' = r.outbox
            /\ storeFaults' = storeFaults - r.refused
            /\ response' = Respond("remind", id, IF r.ok THEN 200 ELSE 500)
    /\ sweep' = Unquiet
    /\ UNCHANGED <<templates, doctors, request, requests, now, avail>>

(* The clock moves on to a later instant at which some reminder falls due. *)
ClockValues ==
    UNION { { d * HoursPerDay - FirstReminderHours, d * HoursPerDay - SecondReminderHours } :
            d \in Days }

Tick(t) ==
    /\ t > now
    /\ now' = t
    /\ sweep' = Unquiet
    /\ UNCHANGED <<appointments, messages, outbox, templates, doctors, storeFaults, request, response, requests, avail>>

(* The sweep runs against appointments booked earlier, one or two, for any *)
(* day, scheduled or cancelled, with the reminder template active.         *)
SweepDocuments(startTime, endTime) ==
    { CreatedDocument(b) :
        b \in [doctor : {1}, date : Days, startTime : {startTime}, endTime : {endTime},
               status : {"", "cancelled"}, sendNotification : {FALSE}] }

InitSweep ==
    /\ appointments \in { << d >> : d \in SweepDocuments(1, 2) }
                        \cup { << d, e >> : d \in SweepDocuments(1, 2), e \in SweepDocuments(2, 3) }
    /\ messages = << >>
    /\ outbox = << >>
    /\ templates = {"appointment_reminder"}
    /\ doctors = << >>
    /\ storeFaults = 0
    /\ request = NoRequest
    /\ response = NoResponse
    /\ requests = << >>
    /\ now = 0
    /\ sweep = NoSweep
    /\ avail = NoAvail

NextSweep ==
    \/ scheduleRemindersStart
    \/ scheduleRemindersDispatch
    \/ scheduleRemindersEnd
    \/ \E id \in 1..MaxAppointments : sendReminderRequest(id)
    \/ \E t \in ClockValues : Tick(t)

SpecSweep == InitSweep /\ [][NextSweep]_vars

(* The sweep on its own while the store is failing: the same appointments, *)
(* sweeps and clock, with the store refusing up to MaxStoreFaults writes.  *)
InitSweepFaults ==
    /\ appointments \in { << d >> : d \in SweepDocuments(1, 2) }
                        \cup { << d, e >> : d \in SweepDocuments(1, 2), e \in SweepDocuments(2, 3) }
    /\ messages = << >>
    /\ outbox = << >>
    /\ templates = {"appointment_reminder"}
    /\ doctors = << >>
    /\ storeFaults = MaxStoreFaults
    /\ request = NoRequest
    /\ response = NoResponse
    /\ requests = << >>
    /\ now = 0
    /\ sweep = NoSweep
    /\ avail = NoAvail

NextSweepFaults ==
    \/ scheduleRemindersStart
    \/ scheduleRemindersDispatch
    \/ scheduleRemindersEnd
    \/ \E t \in ClockValues : Tick(t)

SpecSweepFaults == InitSweepFaults /\ [][NextSweepFaults]_vars

----------------------------------------------------------------------------
(* The sweep run again and again, on its own: no manual call, no store     *)
(* failure, the reminder template active or not.  The loops of one run go on once started (every await          *)
(* settles), a new run starts whenever none is running, and the transport, *)
(* which may refuse any single call, does not refuse for ever.             *)

RemindersPerAppointment == 2

DispatchAccepted ==
    scheduleRemindersDispatch /\ Len(outbox') > Len(outbox)

SweepFairness ==
    /\ WF_vars(scheduleRemindersStart)
    /\ WF_vars(scheduleRemindersDispatch)
    /\ WF_vars(scheduleRemindersEnd)
    /\ SF_vars(DispatchAccepted)

InitSweepFair ==
    /\ appointments \in { << d >> : d \in SweepDocuments(1, 2) }
                        \cup { << d, e >> : d \in SweepDocuments(1, 2), e \in SweepDocuments(2, 3) }
    /\ messages = << >>
    /\ outbox = << >>
    /\ templates \in { {}, {"appointment_reminder"} }
    /\ doctors = << >>
    /\ storeFaults = 0
    /\ request = NoRequest
    /\ response = NoResponse
    /\ requests = << >>
    /\ now = 0
    /\ sweep = NoSweep
    /\ avail = NoAvail

SpecSweepFair == InitSweepFair /\ [][NextSweepFaults]_vars /\ SweepFairness

----------------------------------------------------------------------------
(* Overlapping sweeps.  scheduleReminders is an exported async function    *)
(* with no flag or lock of its own, and nothing in the service keeps a     *)
(* second call from starting while the first awaits the transport.  The    *)
(* locals of a call made while `sweep` is running are kept in `requests`.  *)

(* a timer tick calls scheduleReminders while a sweep is running           *)
scheduleRemindersOverlapping ==
    /\ sweep.running
    /\ Len(requests) < MaxRequests
    /\ requests' = Append(requests,
                          [op |-> "sweep", at |-> now,
                           tasks |-> SweepTasks(SweepDue(appointments, now), 1)])
    /\ UNCHANGED <<appointments, messages, outbox, templates, doctors, storeFaults, request, response, now, sweep, avail>>

(* one iteration of the overlapping call (lines 634-649)                   *)
overlappingDispatch(r) ==
    /\ requests[r].op = "sweep"
    /\ requests[r].tasks # << >>
    /\ \E o \in ReminderOutcomes(templates, storeFaults) :
         LET res == sendAppointmentReminder(appointments, messages, outbox,
                                            Head(requests[r].tasks), o)
         IN /\ appointments' = res.appointments
            /\ messages' = res.messages
            /\ outbox' = res.outbox
            /\ storeFaults' = storeFaults - res.refused
    /\ requests' = [requests EXCEPT ![r].tasks = Tail(@)]
    /\ UNCHANGED <<templates, doctors, request, response, now, sweep, avail>>

(* the overlapping call returns (line 654)                                 *)
overlappingEnd(r) ==
    /\ requests[r].op = "sweep"
    /\ requests[r].tasks = << >>
    /\ requests' = [k \in 1..(Len(requests) - 1) |->
                       IF k < r THEN requests[k] ELSE requests[k + 1]]
    /\ UNCHANGED <<appointments, messages, outbox, templates, doctors, storeFaults, request, response, now, sweep, avail>>

(* one appointment, booked earlier for any day, scheduled or cancelled     *)
InitOverlap ==
    /\ InitSweep
    /\ Len(appointments) = 1

NextOverlap ==
    \/ scheduleRemindersStart
    \/ scheduleRemindersDispatch
    \/ scheduleRemindersEnd
    \/ scheduleRemindersOverlapping
    \/ \E r \in 1..Len(requests) : overlappingDispatch(r)
    \/ \E r \in 1..Len(requests) : overlappingEnd(r)
    \/ \E t \in ClockValues : Tick(t)

SpecOverlap == InitOverlap /\ [][NextOverlap]_vars

----------------------------------------------------------------------------
(* The webhook handler in two steps, as the controller runs it: the answer *)
(* goes out (line 24), the handler awaits processIncomingMessage (line     *)
(* 31), and other handlers run in between.  `requests` keeps each handler  *)
(* with the answer it gave and, once it is done, how the processing ended. *)

(* lines 11-27: the request arrives, is validated and answered             *)
webhookReceive(data) ==
    /\ Len(requests) < MaxRequests
    /\ response' = Respond("webhook", 0, WebhookAnswer(data))
    /\ requests' = Append(requests,
                          [op |-> "webhook", data |-> data, answer |-> WebhookAnswer(data),
                           pc |-> IF data.payload THEN "process" ELSE "done",
                           result |-> ""])
    /\ UNCHANGED <<appointments, messages, outbox, templates, doctors, storeFaults, request, now, sweep, avail>>

(* lines 29-34: processIncomingMessage runs; what it throws is logged      *)
webhookProcess(r) ==
    /\ requests[r].op = "webhook"
    /\ requests[r].pc = "process"
    /\ \E o \in {"sent", "transportError"} :
         LET res == processIncomingMessage(appointments, messages, outbox,
                                           requests[r].data, o)
         IN /\ appointments' = res.appointments
            /\ messages' = res.messages
            /\ outbox' = res.outbox
            /\ requests' = [requests EXCEPT ![r].pc = "done", ![r].result = res.result]
    /\ UNCHANGED <<templates, doctors, storeFaults, request, response, now, sweep, avail>>

(* The webhooks arrive for appointments booked earlier (one or two, any    *)
(* day, scheduled or cancelled) after some messages went out: none, a      *)
(* reminder of appointment 1, then possibly a text without an appointment  *)
(* or a reminder of appointment 2.                                         *)
WebhookLogs(appts) ==
    LET reminder(i) == NewMessage(i, "outbound", "appointment_reminder", "sent")
        text == NewMessage(0, "outbound", "text", "sent")
    IN { << >>, << reminder(1) >>, << reminder(1), text >>, << text >> }
       \cup (IF Len(appts) > 1 THEN { << reminder(1), reminder(2) >> } ELSE {})

InitWebhook ==
    /\ appointments \in { << d >> : d \in SweepDocuments(1, 2) }
                        \cup { << d, e >> : d \in SweepDocuments(1, 2), e \in SweepDocuments(2, 3) }
    /\ messages \in WebhookLogs(appointments)
    /\ outbox = messages
    /\ templates = {"appointment_reminder"}
    /\ doctors = << >>
    /\ storeFaults = 0
    /\ request = NoRequest
    /\ response = NoResponse
    /\ requests = << >>
    /\ now = 0
    /\ sweep = NoSweep
    /\ avail = NoAvail

NextWebhook ==
    \/ \E data \in WebhookPayloads : webhookReceive(data)
    \/ \E r \in 1..Len(requests) : webhookProcess(r)

SpecWebhook == InitWebhook /\ [][NextWebhook]_vars

----------------------------------------------------------------------------
(* One request against an appointment that is closed or open: booked       *)
(* earlier for any day, then cancelled (with or without a reason),         *)
(* completed or left scheduled, its first reminder sent or not, while the  *)
(* reminder template is active or not.  The request is an update, a        *)
(* status change or a manual reminder.                                     *)

ClosedDocuments ==
    { [d EXCEPT !.status = st, !.cancelReason = cr] :
        d \in SweepDocuments(1, 2),
        st \in {"scheduled", "cancelled", "completed"},
        cr \in {"", "patient asked"} }

InitClosed ==
    /\ \E d \in { c \in ClosedDocuments : c.cancelReason # "" => c.status = "cancelled" } :
         \E reminded \in BOOLEAN :
            LET r == sendAppointmentReminder(<< d >>, << >>, << >>, 1, "sent")
            IN /\ appointments = IF reminded THEN r.appointments ELSE << d >>
               /\ messages = IF reminded THEN r.messages ELSE << >>
               /\ outbox = IF reminded THEN r.outbox ELSE << >>
    /\ templates \in {{}, {"appointment_reminder"}}
    /\ doctors = << >>
    /\ storeFaults = 0
    /\ request = NoRequest
    /\ response = NoResponse
    /\ requests = << >>
    /\ now = 0
    /\ sweep = NoSweep
    /\ avail = NoAvail

NextClosed ==
    /\ response = NoResponse
    /\ \/ \E body \in RequestUpdateBodies :
            updateAppointment(1, body) /\ request' = Request("update", 1, body)
       \/ \E body \in StatusBodies :
            changeAppointmentStatus(1, body) /\ request' = Request("status", 1, body)
       \/ sendReminderRequest(1)

SpecClosed == InitClosed /\ [][NextClosed]_vars

----------------------------------------------------------------------------
(* One booking request while every template is active, so that each        *)
(* notification reaches the transport, which accepts or refuses it.  The   *)
(* database holds one appointment booked earlier (any day, scheduled or    *)
(* cancelled); the request is a booking, an update of that appointment or  *)
(* a status change, with any body.                                         *)

AllTemplates ==
    {"appointment_confirmation", "appointment_rescheduled", "appointment_cancelled",
     "appointment_reminder"}

NotifyUpdateBodies == { b \in UpdateBodies : b.cancelReason = "" }

InitNotify ==
    /\ appointments \in { << d >> : d \in SweepDocuments(1, 2) }
    /\ messages = << >>
    /\ outbox = << >>
    /\ templates = AllTemplates
    /\ doctors = << >>
    /\ storeFaults = 0
    /\ request = NoRequest
    /\ response = NoResponse
    /\ requests = << >>
    /\ now = 0
    /\ sweep = NoSweep
    /\ avail = NoAvail

NextNotify ==
    /\ response = NoResponse
    /\ \/ \E body \in CreateBodies :
            createAppointment(body) /\ request' = Request("create", 0, body)
       \/ \E body \in NotifyUpdateBodies :
            updateAppointment(1, body) /\ request' = Request("update", 1, body)
       \/ \E body \in StatusBodies :
            changeAppointmentStatus(1, body) /\ request' = Request("status", 1, body)

SpecNotify == InitNotify /\ [][NextNotify]_vars

----------------------------------------------------------------------------
(* getDoctorAvailability (GET /api/doctors/:id/availability).              *)
(*                                                                         *)
(* In this part of the model an "HH:MM" string is the pair <<hours,        *)
(* minutes>>; zero-padded strings compare as such pairs do, first by       *)
(* hours, then by minutes.  A Date of the requested day is its number of   *)
(* minutes since that day's midnight.                                      *)

Weekdays == << "sunday", "monday", "tuesday", "wednesday", "thursday", "friday", "saturday" >>

(* days[date.getDay()] *)
DayName(date) == Weekdays[(date % DaysPerWeek) + 1]

StrLess(a, b) == a[1] < b[1] \/ (a[1] = b[1] /\ a[2] < b[2])
StrLessEq(a, b) == a = b \/ StrLess(a, b)

(* date.setHours(h, m, 0, 0) *)
SetHours(hm) == hm[1] * MinutesPerHour + hm[2]

(* `${getHours().padStart(2, '0')}:${getMinutes().padStart(2, '0')}`       *)
TimeStr(minutes) ==
    << (minutes \div MinutesPerHour) % HoursPerDay, minutes % MinutesPerHour >>

(* A faulty variant that takes the weekday's entry whether or not it is    *)
(* marked available.                                                       *)
FindAvailableHoursAnyEntry(doctor, date) ==
    LET found == { k \in 1..Len(doctor.availableHours) :
                     doctor.availableHours[k].day = DayName(date) }
    IN IF found = {} THEN 0 ELSE CHOOSE k \in found : \A l \in found : k <= l

(* doctor.availableHours.find(...): the index of the first entry of the    *)
(* weekday that is marked available, 0 when there is none (lines 222-224). *)
FindAvailableHours(doctor, date) ==
    LET found == { k \in 1..Len(doctor.availableHours) :
                     /\ doctor.availableHours[k].day = DayName(date)
                     /\ doctor.availableHours[k].isAvailable }
    IN IF found = {} THEN 0 ELSE CHOOSE k \in found : \A l \in found : k <= l

(* The appointments the handler fetches (lines 239-243): the doctor's, of  *)
(* the day, not cancelled.                                                 *)
DayAppointments(appts, doctorId, date) ==
    SelectSeq(appts, LAMBDA a : a.doctor = doctorId /\ a.date = date /\ a.status # "cancelled")

(* isBooked (lines 270-276) *)
IsBooked(dayAppts, startTimeStr, endTimeStr) ==
    \E k \in 1..Len(dayAppts) :
        LET appointment == dayAppts[k]
        IN \/ StrLessEq(appointment.startTime, startTimeStr)
              /\ StrLess(startTimeStr, appointment.endTime)
           \/ StrLess(appointment.startTime, endTimeStr)
              /\ StrLessEq(endTimeStr, appointment.endTime)
           \/ StrLessEq(startTimeStr, appointment.startTime)
              /\ StrLessEq(appointment.endTime, endTimeStr)

Slot(dayAppts, slotStart, slotEnd) ==
    [startTime |-> TimeStr(slotStart), endTime |-> TimeStr(slotEnd),
     available |-> ~IsBooked(dayAppts, TimeStr(slotStart), TimeStr(slotEnd))]

(* A faulty variant of the walk that also pushes the slot that runs past   *)
(* the end of the working hours.                                           *)
RECURSIVE SlotWalkUnchecked(_, _, _, _)
SlotWalkUnchecked(current, endTime, slotDuration, dayAppts) ==
    IF current < endTime
    THEN << Slot(dayAppts, current, current + slotDuration) >>
         \o SlotWalkUnchecked(current + slotDuration, endTime, slotDuration, dayAppts)
    ELSE << >>

(* The while loop of lines 259-284: `current` advances by slotDuration     *)
(* and a slot is pushed when it ends at or before endTime.                 *)
RECURSIVE SlotWalk(_, _, _, _)
SlotWalk(current, endTime, slotDuration, dayAppts) ==
    IF current < endTime
    THEN (IF current + slotDuration <= endTime
          THEN << Slot(dayAppts, current, current + slotDuration) >>
          ELSE << >>)
         \o SlotWalk(current + slotDuration, endTime, slotDuration, dayAppts)
    ELSE << >>

(* The body of the handler's answer. *)
DoctorAvailability(appts, doctor, doctorId, date) ==
    LET k == FindAvailableHours(doctor, date)
        availableHours == doctor.availableHours[k]
        slotDuration == Or(doctor.averageAppointmentDuration, DefaultSlotDuration)
    IN IF k = 0
       THEN [available |-> FALSE, data |-> << >>]
       ELSE [available |-> TRUE,
             availableHours |-> availableHours,
             data |-> SlotWalk(SetHours(availableHours.startTime),
                               SetHours(availableHours.endTime),
                               slotDuration,
                               DayAppointments(appts, doctorId, date))]

getDoctorAvailability(id, date) ==
    /\ ~avail.called
    /\ IF id > Len(doctors)
       THEN /\ response' = Respond("availability", id, 404)
            /\ avail' = [called |-> TRUE, op |-> "availability", id |-> id, date |-> date]
       ELSE /\ response' = Respond("availability", id, 200)
            /\ avail' = [called |-> TRUE, op |-> "availability", id |-> id, date |-> date,
                         body |-> DoctorAvailability(appointments, doctors[id], id, date)]
    /\ UNCHANGED <<appointments, messages, outbox, templates, doctors, storeFaults, request, requests, now, sweep>>

(* One availability request for a doctor whose hours hold one entry, or    *)
(* an entry after one that is switched off, with any slot duration (0: the *)
(* field is not set), while one appointment of that doctor exists on the   *)
(* first day with any times and status, or none.                           *)

ClockTimes == { << h, m >> : h \in 0..MaxHour, m \in {0, 30} }

SlotDurations == {0, 20, 30, 45}

HoursEntries ==
    [day : {"monday", "tuesday"}, isAvailable : BOOLEAN,
     startTime : ClockTimes, endTime : ClockTimes]

SwitchedOffEntry ==
    [day |-> "monday", isAvailable |-> FALSE, startTime |-> << 0, 0 >>, endTime |-> << 1, 0 >>]

SlotDoctors ==
    [availableHours : { << >> } \cup { << e >> : e \in HoursEntries }
                      \cup { << SwitchedOffEntry, e >> : e \in HoursEntries },
     averageAppointmentDuration : SlotDurations]

SlotAppointments ==
    { << >> } \cup
    { << CreatedDocument(b) >> :
        b \in [doctor : {1}, date : {1}, startTime : ClockTimes, endTime : ClockTimes,
               status : {"", "cancelled", "no-show"}, sendNotification : {FALSE}] }

InitSlots ==
    /\ appointments \in SlotAppointments
    /\ messages = << >>
    /\ outbox = << >>
    /\ templates = {}
    /\ doctors \in { << d >> : d \in SlotDoctors }
    /\ storeFaults = 0
    /\ request = NoRequest
    /\ response = NoResponse
    /\ requests = << >>
    /\ now = 0
    /\ sweep = NoSweep
    /\ avail = NoAvail

NextSlots ==
    \E id \in Doctors, date \in Days : getDoctorAvailability(id, date)

SpecSlots == InitSlots /\ [][NextSlots]_vars

----------------------------------------------------------------------------
(* One update that moves appointment 1 within its day.  Appointment 1 was  *)
(* booked with startTime before endTime; in part of the databases a second *)
(* appointment of the same provider and day was booked after it with any   *)
(* times createAppointment accepts (it checks availability and nothing     *)
(* else about the interval), scheduled or cancelled.                       *)

MovedDocuments ==
    { CreatedDocument(b) :
        b \in { c \in CreateBodies : /\ c.doctor = 1 /\ c.date = 1 /\ c.status = ""
                                     /\ ~c.sendNotification /\ c.startTime < c.endTime } }

NeighbourDocuments ==
    { CreatedDocument(b) :
        b \in { c \in CreateBodies : /\ c.doctor = 1 /\ c.date = 1
                                     /\ c.status \in {"", "cancelled"}
                                     /\ ~c.sendNotification /\ c.startTime <= c.endTime } }

MoveBodies ==
    { b \in UpdateBodies : b.doctor = 0 /\ b.status = "" /\ b.cancelReason = "" }

InitMove ==
    /\ appointments \in
          { << a >> : a \in MovedDocuments }
          \cup { p \in { << a, b >> : a \in MovedDocuments, b \in NeighbourDocuments } :
                     checkAvailability(<< p[1] >>, p[2].doctor, p[2].date,
                                       p[2].startTime, p[2].endTime, 0) }
    /\ messages = << >>
    /\ outbox = << >>
    /\ templates = {}
    /\ doctors = << >>
    /\ storeFaults = 0
    /\ request = NoRequest
    /\ response = NoResponse
    /\ requests = << >>
    /\ now = 0
    /\ sweep = NoSweep
    /\ avail = NoAvail

NextMove ==
    /\ request = NoRequest
    /\ \E body \in MoveBodies :
          updateAppointment(1, body) /\ request' = Request("update", 1, body)

SpecMove == InitMove /\ [][NextMove]_vars

----------------------------------------------------------------------------
(* One inbound webhook for an appointment in any status, after a reminder  *)
(* of that appointment went out (and possibly a later text without an      *)
(* appointment), or after nothing went out.                                *)

ReplyDocuments ==
    { [d EXCEPT !.status = st] : d \in SweepDocuments(1, 2), st \in Statuses }

InitReply ==
    /\ appointments \in { << d >> : d \in ReplyDocuments }
    /\ messages \in WebhookLogs(appointments)
    /\ outbox = messages
    /\ templates = {"appointment_reminder"}
    /\ doctors = << >>
    /\ storeFaults = 0
    /\ request = NoRequest
    /\ response = NoResponse
    /\ requests = << >>
    /\ now = 0
    /\ sweep = NoSweep
    /\ avail = NoAvail

NextReply ==
    /\ request = NoRequest
    /\ \E data \in WebhookPayloads :
          handleWhatsAppWebhook(data) /\ request' = Request("webhook", 0, data)

SpecReply == InitReply /\ [][NextReply]_vars

(* The sweep while the staff change the status of the appointment: one     *)
(* appointment booked earlier for any day, and status changes that send    *)
(* nothing themselves (patientInitiated) between the steps of the sweep.   *)

SweepStatusBodies ==
    { b \in StatusBodies : /\ b.status \in {"scheduled", "cancelled", "completed", "no-show"}
                           /\ b.reason = "" /\ b.patientInitiated }

NextSweepStatus ==
    \/ scheduleRemindersStart
    \/ scheduleRemindersDispatch
    \/ scheduleRemindersEnd
    \/ \E body \in SweepStatusBodies :
          /\ body.status # appointments[1].status
          /\ changeAppointmentStatus(1, body)
          /\ UNCHANGED request
    \/ \E t \in ClockValues : Tick(t)

SpecSweepStatus == InitOverlap /\ [][NextSweepStatus]_vars

----------------------------------------------------------------------------
(* Properties *)

Active(a) == a.status \notin {"cancelled", "no-show"}

(* The half-open overlap rule of the specification: s1 < e2 and s2 < e1.   *)
HalfOpenOverlap(s1, e1, s2, e2) == s1 < e2 /\ s2 < e1

(* Two non-empty intervals that share a point in time.                     *)
IntervalsOverlap(a, b) ==
    /\ a.startTime < a.endTime
    /\ b.startTime < b.endTime
    /\ HalfOpenOverlap(a.startTime, a.endTime, b.startTime, b.endTime)

(* C1: no provider ever has two appointments on the same date, both with   *)
(* a status outside {cancelled, no-show}, whose [startTime,endTime)        *)
(* intervals overlap.                                                      *)
NoDoubleBooking ==
    \A i, j \in 1..Len(appointments) :
        (/\ i < j
         /\ appointments[i].doctor = appointments[j].doctor
         /\ appointments[i].date = appointments[j].date
         /\ Active(appointments[i])
         /\ Active(appointments[j]))
        => ~IntervalsOverlap(appointments[i], appointments[j])

OverlapsActive(body) ==
    \E i \in 1..Len(appointments) :
        /\ appointments[i].doctor = body.doctor
        /\ appointments[i].date = body.date
        /\ Active(appointments[i])
        /\ HalfOpenOverlap(appointments[i].startTime, appointments[i].endTime,
                           body.startTime, body.endTime)

(* C5: a createAppointment whose interval overlaps an active appointment   *)
(* of the same provider on the same date answers 400 (Conflict) and        *)
(* leaves the Appointment collection as it was.                            *)
ConflictingBookingRejected ==
    [][ (request'.op = "create" /\ OverlapsActive(request'.body))
        => (response'.code = 400 /\ appointments' = appointments) ]_vars

ConflictingBookingSeen ==
    /\ request.op = "create"
    /\ response.code = 400
    /\ OverlapsActive(request.body)
    /\ request.body.startTime < request.body.endTime

(* The appointments other than `id` that the conflict query matches for    *)
(* the interval an update asks for.                                        *)
OtherConflicts(id, body) ==
    Conflicts(appointments,
              Or(body.doctor, appointments[id].doctor),
              Or(body.date, appointments[id].date),
              Or(body.startTime, appointments[id].startTime),
              Or(body.endTime, appointments[id].endTime),
              0) \ {id}

(* C6: an updateAppointment that changes date, startTime or endTime is     *)
(* decided by the availability check with the appointment itself left      *)
(* out: when another appointment conflicts it answers 400, changes no      *)
(* field of any appointment and sends nothing; otherwise it is applied.    *)
RejectedUpdateChangesNothing ==
    [][ (request'.op = "update" /\ TimeChanged(appointments[request'.id], request'.body))
        => IF OtherConflicts(request'.id, request'.body) # {}
           THEN response'.code = 400 /\ appointments' = appointments
                /\ messages' = messages
           ELSE response'.code = 200 ]_vars

RejectedUpdateSeen ==
    /\ request.op = "update"
    /\ response.code = 400
    /\ TimeChanged(appointments[1], request.body)
    /\ appointments[1].rescheduleDetails # NoReschedule

(* C7: after a successful updateAppointment that changes the date, the     *)
(* appointment has exactly the two pending reminders computed from its     *)
(* new date.                                                               *)
DateChangeRegeneratesReminders ==
    [][ (/\ request'.op = "update"
         /\ response'.code = 200
         /\ request'.body.date # 0
         /\ request'.body.date # appointments[request'.id].date)
        => appointments'[request'.id].reminders
              = RemindersFor(appointments'[request'.id].date) ]_vars

(* C8: the appointment a successful createAppointment persisted is in      *)
(* status scheduled and has exactly the two pending reminders computed     *)
(* from its date.                                                          *)
CreatedScheduledWithReminders ==
    (response.op = "create" /\ response.code = 201)
    => /\ appointments[response.id].status = "scheduled"
       /\ appointments[response.id].reminders = RemindersFor(appointments[response.id].date)

(* The appointments the call has to take into account: same provider and   *)
(* date, active, not the excluded one.                                     *)
Competing(i) ==
    /\ i # avail.excludeAppointmentId
    /\ appointments[i].doctor = avail.doctorId
    /\ appointments[i].date = avail.date
    /\ Active(appointments[i])

(* C3: checkAvailability returns true exactly when no competing            *)
(* appointment overlaps the candidate under the half-open rule             *)
(* s1 < e2 and s2 < e1 (intervals may be empty, never inverted).           *)
AvailableIffNoOverlap ==
    (/\ avail.called
     /\ avail.startTime <= avail.endTime
     /\ \A i \in 1..Len(appointments) : appointments[i].startTime <= appointments[i].endTime)
    => (avail.result <=>
          ~\E i \in 1..Len(appointments) :
              /\ Competing(i)
              /\ HalfOpenOverlap(appointments[i].startTime, appointments[i].endTime,
                                 avail.startTime, avail.endTime))

(* C4: when a competing appointment strictly contains the candidate        *)
(* interval (it starts before the candidate starts and ends after the      *)
(* candidate ends), checkAvailability returns false.                       *)
ContainingAppointmentConflicts ==
    (/\ avail.called
     /\ avail.startTime <= avail.endTime
     /\ \E i \in 1..Len(appointments) :
           /\ Competing(i)
           /\ appointments[i].startTime < avail.startTime
           /\ appointments[i].endTime > avail.endTime)
    => ~avail.result

ContainingAppointmentSeen ==
    /\ avail.called
    /\ avail.startTime < avail.endTime
    /\ ~avail.result
    /\ \E i \in 1..Len(appointments) :
           /\ Competing(i)
           /\ appointments[i].startTime < avail.startTime
           /\ appointments[i].endTime > avail.endTime
    /\ \A i \in 1..Len(appointments) :
           Competing(i) => (/\ appointments[i].startTime < avail.startTime
                            /\ appointments[i].endTime > avail.endTime)

(* C2: of two createAppointment requests for the same provider and date    *)
(* with overlapping intervals, at most one is persisted, however their     *)
(* checks and writes interleave.                                           *)
ConcurrentBookingsExclusive ==
    \A r1, r2 \in 1..Len(requests) :
        (/\ r1 < r2
         /\ requests[r1].body.doctor = requests[r2].body.doctor
         /\ requests[r1].body.date = requests[r2].body.date
         /\ IntervalsOverlap(requests[r1].body, requests[r2].body))
        => ~(requests[r1].pc = "created" /\ requests[r2].pc = "created")

(* C9: one run of scheduleReminders sends at most one reminder message    *)
(* for an appointment, however many of its reminders are due and unsent.   *)
OneMessagePerAppointmentPerSweep ==
    \A i \in 1..Len(sweep.scheduled) : sweep.scheduled[i] <= 1

(* The unsent reminders with the earliest scheduled time.                  *)
EarliestUnsent(reminders) ==
    { k \in 1..Len(reminders) :
        /\ ~reminders[k].sent
        /\ \A j \in 1..Len(reminders) :
              ~reminders[j].sent => reminders[k].scheduledTime <= reminders[j].scheduledTime }

(* The reminders of an appointment that a step marks.                      *)
Marked(i) ==
    { k \in 1..Len(appointments[i].reminders) :
        appointments'[i].reminders[k] # appointments[i].reminders[k] }

(* A step of the sweep that calls sendAppointmentReminder for `i`, fetched *)
(* in status scheduled with exactly one due unsent reminder.               *)
DispatchOfSingleDue(i) ==
    /\ sweep.running
    /\ sweep.tasks # << >>
    /\ Head(sweep.tasks) = i
    /\ sweep'.tasks = Tail(sweep.tasks)
    /\ sweep.due[i] = 1
    /\ appointments[i].status = "scheduled"

(* The one call marks nothing but the earliest unsent reminder of `i`,     *)
(* as sent, and does so when the message went out.                         *)
MarksEarliestOnly(i) ==
    /\ \A j \in 1..Len(appointments) : j # i => appointments'[j] = appointments[j]
    /\ \A k \in Marked(i) :
          /\ k \in EarliestUnsent(appointments[i].reminders)
          /\ appointments'[i].reminders[k].sent
    /\ Cardinality(Marked(i)) <= 1
    /\ (sweep'.scheduled[i] > sweep.scheduled[i]
        /\ EarliestUnsent(appointments[i].reminders) # {}) => Marked(i) # {}
    /\ Len(messages') - Len(messages) = sweep'.scheduled[i] - sweep.scheduled[i]

(* The sweep that has just gone through its tasks sent one message for     *)
(* `i`.                                                                    *)
SentOnce(i) ==
    (sweep.running /\ sweep.tasks = << >> /\ sweep.due[i] = 1
     /\ appointments[i].status = "scheduled")
    => sweep.scheduled[i] = 1

(* A sweep started right after one that fetched `i` with one due unsent    *)
(* reminder makes no call for `i`.                                         *)
SecondSweepSilent(i) ==
    (sweep.running /\ sweep.immediate /\ sweep.previous.due[i] = 1
     /\ appointments[i].status = "scheduled")
    => (sweep.due[i] = 0 /\ sweep.scheduled[i] = 0 /\ sweep.errors[i] = 0)

(* C10 as stated: for an appointment in status scheduled with exactly one  *)
(* reminder due and unsent, one sweep sends exactly one message and marks  *)
(* only the earliest unsent reminder of that appointment as sent, and a    *)
(* sweep run immediately afterwards at the same time dispatches nothing    *)
(* for that appointment.                                                   *)
SingleDueReminderSentOnce ==
    [][ \A i \in 1..Len(appointments) :
          /\ DispatchOfSingleDue(i) => MarksEarliestOnly(i)
          /\ SentOnce(i)'
          /\ SecondSweepSilent(i)' ]_vars

(* C10, amended: the same, for the sweeps whose dispatch for the           *)
(* appointment did not fail (the transport accepted the message); a        *)
(* failed dispatch sends nothing, marks nothing and is repeated by the     *)
(* next sweep.                                                             *)
SingleDueReminderSentOnceUnlessFailed ==
    [][ \A i \in 1..Len(appointments) :
          /\ DispatchOfSingleDue(i) => MarksEarliestOnly(i)
          /\ (SentOnce(i) \/ sweep.errors[i] > 0)'
          /\ (SecondSweepSilent(i) \/ sweep.previous.errors[i] > 0)' ]_vars

SingleDueReminderSeen ==
    /\ ~sweep.running
    /\ sweep.immediate
    /\ \E i \in 1..Len(appointments) :
          /\ appointments[i].status = "scheduled"
          /\ sweep.previous.due[i] = 1
          /\ sweep.previous.errors[i] = 0
          /\ sweep.scheduled[i] = 0
          /\ Cardinality({ k \in 1..Len(appointments[i].reminders) :
                             appointments[i].reminders[k].sent }) = 1
          /\ \E m \in 1..Len(messages) : messages[m].appointment = i

(* The reminder messages the transport accepted for appointment `i`.       *)
HandedFor(i) ==
    Cardinality({ k \in 1..Len(outbox) :
                    outbox[k].appointment = i /\ outbox[k].kind = "appointment_reminder" })

(* C11: the sweeps hand a reminder message to the transport at most once   *)
(* per reminder, also when a step after the transport call fails: the      *)
(* transport never accepted more reminder messages for an appointment      *)
(* than the appointment has reminders that have fallen due.                *)
ReminderHandedAtMostOnce ==
    \A i \in 1..Len(appointments) :
        HandedFor(i) <= Cardinality({ k \in 1..Len(appointments[i].reminders) :
                                        appointments[i].reminders[k].scheduledTime <= now })

(* C12: two sweeps never run at the same time (a call made while a sweep  *)
(* is running is skipped), and so the sweeps never hand more reminder      *)
(* messages to the transport than the appointment has reminders due.       *)
SweepsNeverOverlap ==
    /\ ~(sweep.running /\ \E r \in 1..Len(requests) : requests[r].op = "sweep")
    /\ \A i \in 1..Len(appointments) :
          HandedFor(i) <= Cardinality(DueUnsent(RemindersFor(appointments[i].date), now))

(* The calls for appointment `i` the running sweep has still to make.      *)
TasksLeft(i) ==
    Cardinality({ k \in 1..Len(sweep.tasks) : sweep.tasks[k] = i })

(* C13: a failed dispatch neither ends the sweep nor takes a call away     *)
(* from any appointment: every due reminder the sweep fetched is either    *)
(* still to be attempted or counted, as a success or as an error of its    *)
(* appointment, and the sweep returns only when none is left.              *)
SweepSurvivesFailure ==
    /\ \A i \in 1..Len(sweep.due) :
          sweep.scheduled[i] + sweep.errors[i] + TasksLeft(i) = sweep.due[i]
    /\ ~sweep.running => sweep.tasks = << >>

SweepSurvivesFailureSeen ==
    /\ sweep.ran
    /\ ~sweep.running
    /\ \E i, j \in 1..Len(sweep.due) :
          /\ i < j
          /\ sweep.errors[i] > 0
          /\ sweep.scheduled[j] = sweep.due[j]
          /\ sweep.due[j] > 0

(* The step in which handler `r` runs processIncomingMessage.              *)
Processing(r) ==
    /\ r \in 1..Len(requests)
    /\ requests[r].op = "webhook"
    /\ requests[r].pc = "process"
    /\ requests'[r].pc = "done"

(* C14: a webhook request that carries a payload is answered 200 before    *)
(* its processing starts, and it has been answered 200 however the         *)
(* processing ends.                                                        *)
AcknowledgedBeforeCorrelation ==
    [][ /\ \A r \in 1..Len(requests) : Processing(r) => requests[r].answer = 200
        /\ \A r \in 1..Len(requests') :
              (requests'[r].op = "webhook" /\ requests'[r].data.payload)
              => requests'[r].answer = 200 ]_vars

AcknowledgedBeforeCorrelationSeen ==
    \E r \in 1..Len(requests) :
        /\ requests[r].op = "webhook"
        /\ requests[r].pc = "done"
        /\ requests[r].data.payload
        /\ requests[r].result = "threw"
        /\ requests[r].answer = 200

(* C15: processing a message whose sender matches no patient creates no    *)
(* Message, changes no appointment and no Message, sends no text, and the  *)
(* request was answered 200.                                               *)
UnknownSenderDropped ==
    [][ \A r \in 1..Len(requests) :
          (Processing(r) /\ requests[r].data.from = "unknown")
          => /\ messages' = messages
             /\ appointments' = appointments
             /\ outbox' = outbox
             /\ requests[r].answer = 200 ]_vars

UnknownSenderDroppedSeen ==
    \E r \in 1..Len(requests) :
        /\ requests[r].op = "webhook"
        /\ requests[r].pc = "done"
        /\ requests[r].data.payload
        /\ requests[r].data.from = "unknown"
        /\ requests[r].data.action = "cancel"
        /\ requests[r].answer = 200
        /\ messages # << >>

(* The appointment of the patient's latest outbound Message that has one   *)
(* (every Message of the model is within the 7-day window), else 0.        *)
LatestLinked ==
    LET linked == { k \in 1..Len(messages) :
                      messages[k].direction = "outbound" /\ messages[k].appointment # 0 }
    IN IF linked = {} THEN 0
       ELSE messages[CHOOSE k \in linked : \A l \in linked : l <= k].appointment

(* The step processes a message of the known patient with action `action`  *)
(* that the 7-day rule ties to an appointment.                             *)
CorrelatedReply(r, action) ==
    /\ Processing(r)
    /\ requests[r].data.from = "known"
    /\ requests[r].data.action = action
    /\ LatestLinked # 0

(* C16: a confirm reply of a known patient tied to appointment A sets A's  *)
(* status to confirmed and adds exactly one inbound Message and one        *)
(* outbound acknowledgment Message to the log.                             *)
ConfirmReplyConfirms ==
    [][ \A r \in 1..Len(requests) :
          CorrelatedReply(r, "confirm")
          => /\ appointments'[LatestLinked].status = "confirmed"
             /\ Len(messages') = Len(messages) + 2
             /\ SubSeq(messages', 1, Len(messages)) = messages
             /\ { messages'[k].direction : k \in (Len(messages) + 1)..Len(messages') }
                   = {"inbound", "outbound"} ]_vars

(* C17: the inbound Message of a known patient is recorded with the        *)
(* appointment of the patient's latest outbound Message that carries one,  *)
(* and without an appointment when there is none.                          *)
InboundLinkedToLatest ==
    [][ \A r \in 1..Len(requests) :
          (Processing(r) /\ requests[r].data.from = "known")
          => \E k \in 1..Len(messages') :
                /\ k > Len(messages)
                /\ messages'[k].direction = "inbound"
                /\ messages'[k].appointment = LatestLinked ]_vars

(* C18: a reschedule reply tied to an appointment sets its status to       *)
(* rescheduled and leaves its date, times and reminders as they were.      *)
RescheduleReplyKeepsTime ==
    [][ \A r \in 1..Len(requests) :
          CorrelatedReply(r, "reschedule")
          => LET before == appointments[LatestLinked]
                 after == appointments'[LatestLinked]
             IN /\ after.status = "rescheduled"
                /\ after.date = before.date
                /\ after.startTime = before.startTime
                /\ after.endTime = before.endTime
                /\ after.reminders = before.reminders ]_vars

(* The reminders `after` are the reminders `before`, not a recomputed     *)
(* list: the same scheduled times, and no sent reminder made pending.      *)
NotRegenerated(before, after) ==
    /\ Len(after) = Len(before)
    /\ \A k \in 1..Len(before) :
          /\ after[k].scheduledTime = before[k].scheduledTime
          /\ before[k].sent => after[k] = before[k]

(* C19: no operation regenerates the reminders of an appointment that is   *)
(* cancelled or completed, and a changeStatus(id, cancelled, reason) on an *)
(* appointment that is already cancelled leaves the reminders exactly as   *)
(* they were and changes no field but cancelReason.                        *)
ClosedKeepsReminders ==
    [][ /\ \A i \in 1..Len(appointments) :
              appointments[i].status \in {"cancelled", "completed"}
              => NotRegenerated(appointments[i].reminders, appointments'[i].reminders)
        /\ (/\ request'.op = "status"
            /\ request'.body.status = "cancelled"
            /\ response'.code = 200
            /\ appointments[request'.id].status = "cancelled")
           => appointments' = [appointments EXCEPT ![request'.id].cancelReason =
                                                     appointments'[request'.id].cancelReason] ]_vars

ClosedKeepsRemindersSeen ==
    /\ request.op = "status"
    /\ request.body.status = "cancelled"
    /\ request.body.reason = ""
    /\ response.code = 200
    /\ appointments[1].cancelReason = "patient asked"
    /\ appointments[1].reminders[1].sent

(* C20: after any transition of an appointment into cancelled, whether by *)
(* updateAppointment, by changeStatus or by an inbound cancel reply, the   *)
(* appointment carries a non-empty cancelReason.                           *)
CancelledHasReason ==
    [][ \A i \in 1..Len(appointments) :
          (appointments[i].status # "cancelled" /\ appointments'[i].status = "cancelled")
          => appointments'[i].cancelReason # "" ]_vars

(* The request reaches its notification: it passes the handler's own      *)
(* checks and meets the condition under which the handler notifies.        *)
NotificationDue(appts, req) ==
    CASE req.op = "create" ->
            /\ req.body.sendNotification
            /\ checkAvailability(appts, req.body.doctor, req.body.date,
                                 req.body.startTime, req.body.endTime, 0)
      [] req.op = "update" ->
            /\ req.id <= Len(appts)
            /\ TimeChanged(appts[req.id], req.body) => UpdateAvailable(appts, req.id, req.body)
            /\ RescheduleSnapshot(appts[req.id], req.body) # NoReschedule
      [] req.op = "status" ->
            /\ req.body.status \in Statuses
            /\ req.id <= Len(appts)
            /\ ~req.body.patientInitiated
      [] OTHER -> FALSE

(* The document carries what the request asked for. *)
Requested(doc, req) ==
    CASE req.op = "create" ->
            /\ doc.doctor = req.body.doctor /\ doc.date = req.body.date
            /\ doc.startTime = req.body.startTime /\ doc.endTime = req.body.endTime
      [] req.op = "update" ->
            /\ req.body.doctor # 0 => doc.doctor = req.body.doctor
            /\ req.body.date # 0 => doc.date = req.body.date
            /\ req.body.startTime # 0 => doc.startTime = req.body.startTime
            /\ req.body.endTime # 0 => doc.endTime = req.body.endTime
            /\ req.body.status # "" => doc.status = req.body.status
      [] req.op = "status" -> doc.status = req.body.status
      [] OTHER -> FALSE

(* C21: when the transport fails while createAppointment,                  *)
(* updateAppointment or changeStatus sends its notification (every         *)
(* template being active, the notification is due and no Message comes of  *)
(* it), the operation still succeeds: the appointment is persisted with    *)
(* the requested change and the caller gets the success answer.            *)
NotificationFailureTolerated ==
    [][ (NotificationDue(appointments, request') /\ messages' = messages)
        => /\ response'.code = IF request'.op = "create" THEN 201 ELSE 200
           /\ response'.id \in 1..Len(appointments')
           /\ Requested(appointments'[response'.id], request')
           /\ request'.op = "create" => Len(appointments') = Len(appointments) + 1 ]_vars

NotificationFailureToleratedSeen ==
    /\ request.op = "create"
    /\ request.body.sendNotification
    /\ response.code = 201
    /\ Len(appointments) = 2
    /\ messages = << >>
    /\ outbox = << >>

(* C22: a manual reminder without a templateId fails when no active       *)
(* template of kind appointment_reminder exists, and then makes no         *)
(* transport call, creates no Message and changes no reminder of the       *)
(* appointment.                                                            *)
MissingTemplateFails ==
    [][ (response'.op = "remind" /\ "appointment_reminder" \notin templates)
        => /\ response'.code # 200
           /\ outbox' = outbox
           /\ messages' = messages
           /\ appointments' = appointments ]_vars

MissingTemplateFailsSeen ==
    /\ response.op = "remind"
    /\ response.code # 200
    /\ "appointment_reminder" \notin templates
    /\ \E k \in 1..Len(appointments[1].reminders) : ~appointments[1].reminders[k].sent

Occurrences(seq, m) == Cardinality({ k \in 1..Len(seq) : seq[k] = m })

(* C23: once the sending operation has ended, in success or in an error,   *)
(* every message the transport accepted has its own persisted outbound     *)
(* Message.                                                                *)
HandedMessagesRecorded ==
    \A k \in 1..Len(outbox) :
        Occurrences(outbox, outbox[k]) <= Occurrences(messages, outbox[k])

(* The availability request was answered for a doctor that exists. *)
AvailabilityAnswered ==
    avail.called /\ avail.op = "availability" /\ response.code = 200

HasHoursFor(doctor, date) ==
    \E k \in 1..Len(doctor.availableHours) :
        doctor.availableHours[k].day = DayName(date) /\ doctor.availableHours[k].isAvailable

(* C24: for a provider with no working-hours entry marked available for    *)
(* the weekday of the requested date, getAvailability returns an empty     *)
(* slot list and available = false, whatever appointments exist.           *)
NoHoursNoSlots ==
    (AvailabilityAnswered /\ ~HasHoursFor(doctors[avail.id], avail.date))
    => (avail.body.available = FALSE /\ avail.body.data = << >>)

NoHoursNoSlotsSeen ==
    /\ AvailabilityAnswered
    /\ Len(doctors[avail.id].availableHours) = 2
    /\ doctors[avail.id].availableHours[2].isAvailable
    /\ ~HasHoursFor(doctors[avail.id], avail.date)
    /\ appointments # << >>
    /\ avail.body.available = FALSE

Asked(appointment, body) ==
    [doctor |-> Or(body.doctor, appointment.doctor),
     date |-> Or(body.date, appointment.date),
     startTime |-> Or(body.startTime, appointment.startTime),
     endTime |-> Or(body.endTime, appointment.endTime)]

(* C27: an updateAppointment that moves an appointment to a new interval   *)
(* overlapping that appointment's own current interval, and no other       *)
(* active appointment of the provider, succeeds.                           *)
MoveOverOwnIntervalSucceeds ==
    [][ LET id == request'.id
            asked == Asked(appointments[id], request'.body)
        IN (/\ request'.op = "update"
            /\ TimeChanged(appointments[id], request'.body)
            /\ asked.date = appointments[id].date
            /\ HalfOpenOverlap(asked.startTime, asked.endTime,
                               appointments[id].startTime, appointments[id].endTime)
            /\ \A j \in 1..Len(appointments) :
                  (/\ j # id
                   /\ appointments[j].doctor = asked.doctor
                   /\ appointments[j].date = asked.date
                   /\ Active(appointments[j]))
                  => ~HalfOpenOverlap(asked.startTime, asked.endTime,
                                      appointments[j].startTime, appointments[j].endTime))
           => /\ response'.code = 200
              /\ appointments'[id].startTime = asked.startTime
              /\ appointments'[id].endTime = asked.endTime ]_vars

(* C28: changeStatus with a missing status, or with one outside           *)
(* {scheduled, confirmed, rescheduled, cancelled, completed, no-show},     *)
(* fails with a validation error (400), leaves the appointment unchanged   *)
(* and sends no notification.                                              *)
InvalidStatusRejected ==
    [][ (/\ request'.op = "status"
         /\ request'.body.status \notin {"scheduled", "confirmed", "rescheduled",
                                         "cancelled", "completed", "no-show"})
        => /\ response'.code = 400
           /\ appointments' = appointments
           /\ messages' = messages
           /\ outbox' = outbox ]_vars

InvalidStatusRejectedSeen ==
    /\ request.op = "status"
    /\ request.body.status = "bogus"
    /\ ~request.body.patientInitiated
    /\ response.code = 400
    /\ "appointment_confirmation" \in templates

Closed(a) == a.status \in {"cancelled", "completed", "no-show"}

SweepSkipsClosed ==
    [][ \A i \in 1..Len(appointments) :
          (sweep.running /\ sweep'.tasks # sweep.tasks /\ HandedFor(i)' > HandedFor(i))
          => ~Closed(appointments[i]) ]_vars

(* C31: when the dispatch of a reminder fails at the transport call, the  *)
(* reminder keeps sent = false and status pending (nothing of the          *)
(* appointment changes), and the next sweep attempts again: it has a call  *)
(* for every appointment in which the failed run left a reminder due and   *)
(* unsent.                                                                 *)
TransportFailureRetried ==
    [][ /\ (/\ sweep.running /\ sweep'.running
            /\ Len(sweep'.tasks) < Len(sweep.tasks)
            /\ outbox' = outbox)
           => appointments' = appointments
        /\ (~sweep.running /\ sweep'.running /\ sweep.ran)
           => \A i \in 1..Len(appointments) :
                 (/\ sweep.errors[i] > 0
                  /\ ~Closed(appointments[i])
                  /\ DueUnsent(appointments[i].reminders, now) # {})
                 => \E k \in 1..Len(sweep'.tasks) : sweep'.tasks[k] = i ]_vars

TransportFailureRetriedSeen ==
    /\ sweep.running
    /\ Len(sweep.previous.errors) >= 1
    /\ sweep.previous.errors[1] > 0
    /\ sweep.tasks # << >>
    /\ Head(sweep.tasks) = 1
    /\ outbox = << >>
    /\ \A k \in 1..Len(appointments[1].reminders) :
          ~appointments[1].reminders[k].sent /\ appointments[1].reminders[k].status = "pending"

StatusChangeNotified ==
    \A body \in NotifyUpdateBodies :
       (/\ response = NoResponse
        /\ body.status # ""
        /\ body.status # appointments[1].status
        /\ TimeChanged(appointments[1], body) => UpdateAvailable(appointments, 1, body))
       => ENABLED (/\ updateAppointment(1, body)
                   /\ request' = Request("update", 1, body)
                   /\ Len(outbox') > Len(outbox))

(* C34: an update that changes the provider and keeps date, startTime and *)
(* endTime is rejected, and changes nothing, when the new provider already *)
(* has an active appointment on that date that overlaps the interval (one  *)
(* that checkAvailability itself reports).                                 *)
ProviderChangeChecked ==
    [][ (/\ request = NoRequest
         /\ request'.op = "update"
         /\ request'.body.doctor \notin {0, appointments[1].doctor}
         /\ ~TimeChanged(appointments[1], request'.body)
         /\ appointments[1].startTime < appointments[1].endTime
         /\ ~checkAvailability(appointments, request'.body.doctor, appointments[1].date,
                               appointments[1].startTime, appointments[1].endTime, 1))
        => /\ response'.code = 400
           /\ appointments' = appointments ]_vars

(* C35: every appointment persisted by createAppointment or               *)
(* updateAppointment has its startTime strictly before its endTime.        *)
StartBeforeEnd ==
    \A i \in 1..Len(appointments) : appointments[i].startTime < appointments[i].endTime

(* checkAvailability for the interval of a slot: the query compares the   *)
(* "HH:MM" strings, which order as their minutes of the day do.            *)
SlotCheckAvailability(appts, doctorId, date, slot) ==
    checkAvailability([k \in 1..Len(appts) |->
                          [appts[k] EXCEPT !.startTime = SetHours(@),
                                           !.endTime = SetHours(@)]],
                      doctorId, date, SetHours(slot.startTime), SetHours(slot.endTime), 0)

MarkedOnlyWhenDue ==
    [][ \A i \in 1..Len(appointments) :
           \A k \in 1..Len(appointments[i].reminders) :
              (~appointments[i].reminders[k].sent /\ appointments'[i].reminders[k].sent)
              => appointments[i].reminders[k].scheduledTime <= now ]_vars

(* C38: for each reminder, sent is true exactly when its status is not   *)
(* pending, and a reminder with sent = true carries the id of an existing  *)
(* outbound Message of the same appointment.                               *)
ReminderMarksConsistent ==
    \A i \in 1..Len(appointments) :
       \A k \in 1..Len(appointments[i].reminders) :
          LET reminder == appointments[i].reminders[k]
          IN /\ reminder.sent <=> reminder.status # "pending"
             /\ reminder.sent
                => /\ reminder.messageId \in 1..Len(messages)
                   /\ messages[reminder.messageId].direction = "outbound"
                   /\ messages[reminder.messageId].appointment = i

ReminderMarksConsistentSeen ==
    /\ Len(appointments) = 2
    /\ appointments[2].reminders[1].sent
    /\ appointments[2].reminders[1].status = "sent"
    /\ appointments[2].reminders[1].messageId = 2
    /\ appointments[1].reminders[1].sent
    /\ ~appointments[1].reminders[2].sent

ReminderDue(i, k) ==
    /\ i <= Len(appointments)
    /\ k <= Len(appointments[i].reminders)
    /\ ~Closed(appointments[i])
    /\ ~appointments[i].reminders[k].sent
    /\ appointments[i].reminders[k].scheduledTime <= now

ReminderSent(i, k) ==
    /\ i <= Len(appointments)
    /\ k <= Len(appointments[i].reminders)
    /\ appointments[i].reminders[k].sent

(* C39 as stated: under repeated sweeps and a transport that eventually   *)
(* succeeds, every reminder of an appointment in a non-terminal status     *)
(* whose scheduledTime has passed is eventually marked sent.               *)
DueReminderEventuallySent ==
    \A i \in 1..MaxAppointments : \A k \in 1..RemindersPerAppointment :
        ReminderDue(i, k) ~> ReminderSent(i, k)

(* C39, amended: the same while a reminder template is active; without    *)
(* one every call fails before it reaches the transport and the reminder   *)
(* stays unsent for ever.                                                  *)
DueReminderEventuallySentWithTemplate ==
    \A i \in 1..MaxAppointments : \A k \in 1..RemindersPerAppointment :
        (ReminderDue(i, k) /\ "appointment_reminder" \in templates) ~> ReminderSent(i, k)

DueReminderEventuallySentSeen ==
    /\ ~sweep.running
    /\ Len(appointments) = 2
    /\ sweep.previous.errors = << 1, 1 >>
    /\ sweep.scheduled = << 1, 1 >>
    /\ ReminderSent(1, 1) /\ ReminderSent(2, 1)
    /\ appointments[1].reminders[1].scheduledTime <= sweep.at

====
